---------------------------- MODULE Spec2Model ----------------------------
(***************************************************************************)
(* Offline-first ERP list screen (cache / fetch reconciliation with a      *)
(* single 401 retry), its pending-forms badge, the pending-forms export    *)
(* with the handler of its button, and the start of the app, modelled from *)
(*   src/unnamed/part_000                     (both ERP screen variants)   *)
(*   src/src/hooks/usePendingFormsExport.ts   (export hook and utility)    *)
(*   src/src/app/App.tsx                      (checkAuthState)             *)
(* One action is one synchronous block of JavaScript: the code that runs   *)
(* between two awaits of an async function, together with the outcome of   *)
(* the awaited call that resumes it.  The two pure functions of the fetch  *)
(* path (the 401 classification and the candidate list of a payload) have  *)
(* specifications of their own, which apply them to one input.             *)
(***************************************************************************)
EXTENDS Integers, Sequences, FiniteSets, TLC

\* ------------------------------------------------------------------ bounds
\* number of effect runs (reconciliations) of one mounted screen
MaxRecs == 2
\* number of calls of exportPendingFormsToFile
MaxExports == 2
\* number of calls of fetchPendingFormsCount
MaxCounts == 3
\* number of items of a payload whose items are mapped
MaxItems == 2
\* presses of the export button
MaxHandles == 3

Recs == 1..MaxRecs

\* ------------------------------------------------------- JavaScript values
\* A scalar is [t, s, n]: t is the typeof-like tag, s the text of a string,
\* n the value of a number (booleans: 0/1).
Undef == [t |-> "undefined", s |-> "", n |-> 0]
JNull == [t |-> "null", s |-> "", n |-> 0]
Str(x) == [t |-> "string", s |-> x, n |-> 0]
Num(k) == [t |-> "number", s |-> "", n |-> k]

Fields == {"id", "ID", "key", "name", "systemId", "title", "systemName",
           "formCount", "form_count", "formsCount", "forms_count"}

\* an object item: every property the code reads, absent ones undefined
Obj(fs) == [t |-> "object", s |-> "", n |-> 0,
            f |-> [k \in Fields |-> IF k \in DOMAIN fs THEN fs[k] ELSE Undef]]

\* x == null || x === undefined, the test of the ?? operator
Nullish(v) == v.t \in {"undefined", "null"}

\* !v is false
Truthy(v) ==
    CASE v.t = "string" -> v.s # ""
      [] v.t = "number" -> v.n # 0
      [] v.t = "boolean" -> v.n = 1
      [] v.t = "object" -> TRUE
      [] v.t = "array" -> TRUE
      [] OTHER -> FALSE

\* String(v)
ToStr(v) ==
    CASE v.t = "string" -> v.s
      [] v.t = "number" -> ToString(v.n)
      [] v.t = "boolean" -> IF v.n = 1 THEN "true" ELSE "false"
      [] v.t = "object" -> "[object Object]"
      [] v.t = "nan" -> "NaN"
      [] v.t = "null" -> "null"
      [] OTHER -> "undefined"

\* Number("...") for the strings the payloads use
NumericStrings == {<<"", 0>>, <<"0", 0>>, <<"5", 5>>, <<"7", 7>>, <<"-3", -3>>}

\* Number(v) as [fin |-> Number.isFinite(Number(v)), n |-> the number]
ToNum(v) ==
    CASE v.t = "number" -> [fin |-> TRUE, n |-> v.n]
      [] v.t = "boolean" -> [fin |-> TRUE, n |-> v.n]
      [] v.t = "null" -> [fin |-> TRUE, n |-> 0]
      [] v.t = "string" ->
            IF \E p \in NumericStrings : p[1] = v.s
            THEN [fin |-> TRUE, n |-> (CHOOSE p \in NumericStrings : p[1] = v.s)[2]]
            ELSE [fin |-> FALSE, n |-> 0]
      [] OTHER -> [fin |-> FALSE, n |-> 0]

\* a ?? b ?? ... ?? dflt over the listed properties of item
Coalesce(item, names, dflt) ==
    LET present == {i \in 1..Len(names) : ~Nullish(item.f[names[i]])}
    IN  IF present = {} THEN dflt
        ELSE item.f[names[CHOOSE i \in present : \A j \in present : i <= j]]

\* ----------------------------------------------------------- raw payloads
\* A raw payload is [t, items, data]: items is the element list when the
\* value is an array, data its `data` property (NoData when absent).
NoData == [t |-> "undefined", items |-> <<>>]
RawArr(its, d) == [t |-> "array", items |-> its, data |-> d]
RawObj(d) == [t |-> "object", items |-> <<>>, data |-> d]

\* Array.isArray(v)
IsArray(v) == v.t = "array"

\* v?.data / (v as any).data
DataOf(v) == IF v.t \in {"array", "object"} THEN v.data ELSE NoData


\* a search that looks at raw.data, then at raw, then at raw.data.data
CandidateListRawBeforeNested(raw) ==
    IF IsArray(DataOf(raw)) THEN DataOf(raw).items
    ELSE IF IsArray(raw) THEN raw.items
    ELSE IF IsArray(DataOf(DataOf(raw))) THEN DataOf(DataOf(raw)).items
    ELSE <<>>

\* normalizeErpSystems: the candidate list, part_000 lines 48-60
CandidateList(raw) ==
    LET candidates == <<DataOf(raw), raw>>
        hit(c) == IsArray(c) \/ (Truthy(c) /\ IsArray(DataOf(c)))
        pick(c) == IF IsArray(c) THEN c.items ELSE DataOf(c).items
    IN  IF hit(candidates[1]) THEN pick(candidates[1])
        ELSE IF hit(candidates[2]) THEN pick(candidates[2])
        ELSE <<>>

\* mapToErpSystem, part_000 lines 62-87: [ok |-> FALSE] stands for null
NoSystem == [ok |-> FALSE, id |-> "", name |-> "", formCount |-> 0]
mapToErpSystem(item) ==
    IF ~Truthy(item) \/ item.t # "object" THEN NoSystem
    ELSE LET id == Coalesce(item, <<"id", "ID", "key", "name", "systemId">>, Str(""))
             name == Coalesce(item, <<"name", "title", "systemName">>, Str(""))
             formCountValue ==
                 Coalesce(item, <<"formCount", "form_count", "formsCount",
                                  "forms_count">>, Num(0))
         IN  IF ~Truthy(id) \/ ~Truthy(name) THEN NoSystem
             ELSE [ok |-> TRUE, id |-> ToStr(id), name |-> ToStr(name),
                   formCount |-> IF ToNum(formCountValue).fin
                                 THEN ToNum(formCountValue).n ELSE 0]

ErpOf(m) == [id |-> m.id, name |-> m.name, formCount |-> m.formCount]

\* a mapping that keeps one record per id, the first
RECURSIVE MapFilterDistinct(_)
MapFilterDistinct(list) ==
    IF list = <<>> THEN <<>>
    ELSE LET m == mapToErpSystem(list[Len(list)])
             front == MapFilterDistinct(SubSeq(list, 1, Len(list) - 1))
         IN  IF m.ok /\ \A k \in 1..Len(front) : front[k].id # m.id
             THEN Append(front, ErpOf(m)) ELSE front

\* list.map(mapToErpSystem).filter(Boolean)
RECURSIVE MapFilter(_)
MapFilter(list) ==
    IF list = <<>> THEN <<>>
    ELSE LET m == mapToErpSystem(Head(list))
         IN  (IF m.ok THEN <<ErpOf(m)>> ELSE <<>>) \o MapFilter(Tail(list))

normalizeErpSystems(raw) ==
    IF ~Truthy(raw) THEN <<>> ELSE MapFilter(CandidateList(raw))

\* ------------------------------------------------------------- the inputs
CSA2 == [id |-> "1", name |-> "CSA", formCount |-> 2]

\* what the device's cache can hold when the screen mounts
InitialCaches == {<<>>, <<CSA2>>}

\* answers of getErpSystems()
PayloadData == RawObj(RawArr(<<Obj([id |-> Str("1"), name |-> Str("CSA"),
                                     formCount |-> Num(5)])>>, NoData))
PayloadTop == RawArr(<<Obj([ID |-> Num(1), title |-> Str("CSA"),
                            forms_count |-> Str("5")]),
                       Obj([title |-> Str("anonymous")])>>, NoData)
PayloadNoList == RawObj(NoData)
Payloads == {PayloadData, PayloadTop, PayloadNoList}

\* values thrown by getErpSystems(): t is the kind of value (an object, null,
\* undefined, a string); of an object, status, response.status and statusCode
\* (0 for an absent one) and message: msgT is its type ("undefined" when absent),
\* msg the characters of a string message
Thrown(t, st, rs, sc, mt, m) ==
    [t |-> t, status |-> st, respStatus |-> rs, statusCode |-> sc,
     msgT |-> mt, msg |-> m]
Err(st, rs, sc, m) == Thrown("object", st, rs, sc, "string", m)
Msg401 == <<"H", "T", "T", "P", " ", "4", "0", "1">>
MsgUnauthorized == <<"U", "n", "a", "u", "t", "h", "o", "r", "i", "z", "e", "d">>
MsgNetwork == <<"N", "e", "t", "w", "o", "r", "k">>
MsgStorage == <<"S", "t", "o", "r", "a", "g", "e">>
FetchErrors == {Err(401, 0, 0, MsgNetwork), Err(0, 401, 0, MsgNetwork),
                Err(0, 0, 401, MsgNetwork), Err(0, 0, 0, Msg401),
                Err(0, 0, 0, MsgUnauthorized), Err(500, 500, 500, MsgNetwork),
                Err(0, 0, 0, MsgNetwork), Thrown("null", 0, 0, 0, "undefined", <<>>)}
\* values thrown by saveErpSystemsToCache(): storage failures
SaveErrors == {Err(0, 0, 0, MsgStorage)}

\* answers of getIdToken({forceRefresh: true})
Tokens == {JNull, Str(""), Str("tok")}

\* useNetwork().isConnected: true, false or null (unknown)
NetStates == {"true", "false", "null"}

\* String.prototype.includes
Includes(s, sub) ==
    \E i \in 1..(Len(s) - Len(sub) + 1) : SubSeq(s, i, i + Len(sub) - 1) = sub

\* a classification that takes every failure for an authorization failure
is401ErrorAnyFailure(error) == TRUE

\* typeof v
TypeOf(v) == IF v.t = "null" THEN "object" ELSE v.t

\* evaluating the is401Error expression (lines 134-142) raises a TypeError: no
\* earlier operand of || is true and either `'status' in error` is applied to
\* null, or error.message is a value without an includes method
is401Raises(error) ==
    /\ error.respStatus # 401 /\ error.status # 401 /\ error.statusCode # 401
    /\ \/ TypeOf(error) = "object" /\ error.t = "null"
       \/ error.msgT = "number"

\* is401Error, part_000 lines 134-142, where the expression has a value
is401Error(error) ==
    \/ error.respStatus = 401
    \/ error.status = 401
    \/ error.statusCode = 401
    \/ (TypeOf(error) = "object" /\ error.t = "object" /\ error.status = 401)
    \/ (error.msgT = "string" /\ Includes(error.msg, <<"4", "0", "1">>))
    \/ (error.msgT = "string" /\ Includes(error.msg, MsgUnauthorized))

\* a snapshot test that never finds anything to show
HasItemsNever(c) == FALSE

\* cached && cached.length > 0
HasItems(c) == ~c.isNull /\ Len(c.v) > 0

\* an offline test that never matches (isConnected compared with the wrong value)
IsOfflineNeverMatches(conn) == conn = "offline"

\* isConnected === false
IsOffline(conn) == conn = "false"

\* a token test that only rules out undefined (refreshedToken !== undefined)
UsableTokenUnlessUndefined(tok) == tok.t # "undefined"

\* if (refreshedToken)
UsableToken(tok) == Truthy(tok)

\* ---------------------------------------------------- the ERP list screen
VARIABLES
    variant,      \* which screen is mounted: "retry" (lines 34-342) or "plain" (377-636)
    isConnected,  \* useNetwork().isConnected
    mounted,      \* the screen is mounted
    erpSystems,   \* useState: the displayed list
    loading,      \* useState: the loading flag
    cache,        \* what erpStorage holds (EntityCache)
    nRecs,        \* effect runs so far
    recs,         \* the loadErpSystems call of each effect run
    writer,       \* history: the effect run whose save wrote cache last (0: none)
    dirty         \* history: cache was written since the last effect run began

screenVars == <<variant, isConnected, mounted, erpSystems, loading, cache, nRecs,
                recs, writer, dirty>>

\* the pending-forms export (usePendingFormsExport.ts, lines 125-201)
VARIABLES
    platform,     \* Platform.OS and the RNFS directory constants of the device
    queue,        \* what pendingQueue holds
    queue0,       \* history: what it held before the first export
    fsDirs,       \* the directories that exist
    fsFiles,      \* the files that exist, as [dir, name, content]
    now,          \* the clock read by new Date()
    nExps,        \* calls of exportPendingFormsToFile so far
    exps          \* each call: its position, its locals and its result

exportVars == <<platform, queue, queue0, fsDirs, fsFiles, now, nExps, exps>>

\* the pending-forms badge of the screen (part_000 lines 226-244, 519-537)
VARIABLES
    pendingFormsCount,  \* useState: the count the badge shows
    nCnts,              \* calls of fetchPendingFormsCount so far
    cnts                \* each call: its position and how its read ended

countVars == <<pendingFormsCount, nCnts, cnts>>

\* the two pure functions of the fetch path, each applied to one input
VARIABLES
    thrown,       \* a value getErpSystems() rejected with
    verdict,      \* what the is401Error expression made of it
    response,     \* a value getErpSystems() resolved with
    extracted     \* the list normalizeErpSystems took from it

pureVars == <<thrown, verdict, response, extracted>>

\* the export button's handler (usePendingFormsExport.ts lines 8-121)
VARIABLES
    isExporting,  \* useState: an export is under way
    captured,     \* the isExporting the handleExport of the last render closed over
    nHandles,     \* invocations of handleExport so far
    handles       \* each invocation: its position and how it ended

handleVars == <<isExporting, captured, nHandles, handles>>

\* the start of the app (App.tsx lines 24-90)
VARIABLES
    device,        \* what the token store, NetInfo and the token refresh will answer
    isLoading,     \* useState: the app shows its spinner
    initialRoute,  \* useState: the route the navigator starts at
    auth           \* checkAuthState: its position and what it has called

authVars == <<device, isLoading, initialRoute, auth>>

appVars == <<handleVars, authVars>>

vars == <<screenVars, exportVars, countVars, pureVars, appVars>>

\* what the actions of the screen, and those of the export, leave alone
offScreen == <<exportVars, countVars, pureVars, appVars>>
offExport == <<screenVars, countVars, pureVars, appVars>>

NullCached == [isNull |-> TRUE, v |-> <<>>]

\* one loadErpSystems call: its position, its closure variables, and a record of
\* the calls it made and of how they ended
IdleRec == [pc |-> "idle", cancelled |-> FALSE, conn |-> "null",
            cached |-> NullCached, systems |-> <<>>,
            fetchCalls |-> 0, refreshCalls |-> 0, saveCalls |-> 0,
            first |-> "none", refreshed |-> "none", second |-> "none",
            readOk |-> FALSE, escaped |-> FALSE]

\* what a thrown value carries, recorded apart from the code's classification
Carries401(e) ==
    \/ 401 \in {e.status, e.respStatus, e.statusCode}
    \/ Includes(e.msg, <<"4", "0", "1">>)
    \/ Includes(e.msg, MsgUnauthorized)
NonEmptyToken(tok) == tok.t = "string" /\ tok.s # ""

\* what is kept of a call that has ended and is cancelled: that it ended, and
\* whether an exception left it; the rest of its record is history nobody reads
Forgotten(rec) == [IdleRec EXCEPT !.pc = "done", !.cancelled = TRUE,
                                  !.escaped = rec.escaped]

\* the cleanup function of the effect (lines 221-223): cancelled = true
Cancelled(rec) ==
    IF rec.pc = "done" THEN Forgotten(rec) ELSE [rec EXCEPT !.cancelled = TRUE]

ScreenInit ==
    /\ variant \in {"retry", "plain"}
    /\ isConnected \in NetStates
    /\ mounted = TRUE
    /\ erpSystems = <<>>
    /\ loading = TRUE
    /\ cache \in InitialCaches
    /\ nRecs = 0
    /\ recs = [r \in Recs |-> IdleRec]
    /\ writer = 0
    /\ dirty = FALSE

\* the effect body: cancelled = false; loadErpSystems() up to its first await
StartedRec(c) == [IdleRec EXCEPT !.pc = "readCache", !.conn = c]

\* first run of the effect after mount
Mount ==
    /\ UNCHANGED offScreen
    /\ mounted /\ nRecs = 0
    /\ recs' = [recs EXCEPT ![1] = StartedRec(isConnected)]
    /\ nRecs' = 1
    /\ loading' = TRUE
    /\ UNCHANGED <<variant, isConnected, mounted, erpSystems, cache, writer, dirty>>

\* isConnected changes: the cleanup of the previous run, then the effect again
NetworkChange ==
    /\ UNCHANGED offScreen
    /\ mounted /\ nRecs >= 1 /\ nRecs < MaxRecs
    /\ \E c \in NetStates \ {isConnected} :
         /\ isConnected' = c
         /\ recs' = [recs EXCEPT ![nRecs] = Cancelled(@),
                                 ![nRecs + 1] = StartedRec(c)]
    /\ nRecs' = nRecs + 1
    /\ loading' = TRUE
    /\ dirty' = FALSE
    /\ UNCHANGED <<variant, mounted, erpSystems, cache, writer>>

\* the screen is torn down: the cleanup of the last run
Unmount ==
    /\ UNCHANGED offScreen
    /\ mounted /\ nRecs >= 1
    /\ mounted' = FALSE
    /\ recs' = [recs EXCEPT ![nRecs] = Cancelled(@)]
    /\ UNCHANGED <<variant, isConnected, erpSystems, loading, cache, nRecs, writer,
                   dirty>>

\* an end of the call that leaves the loading flag alone
FinallyKeepsLoading(r, rr) ==
    /\ loading' = loading
    /\ recs' = [recs EXCEPT ![r] =
                   IF rr.cancelled THEN [IdleRec EXCEPT !.pc = "done",
                                                        !.cancelled = TRUE,
                                                        !.escaped = rr.escaped]
                   ELSE [rr EXCEPT !.pc = "done", !.cached = [v |-> <<>>, isNull |-> TRUE],
                                   !.systems = <<>>, !.conn = "null"]]

\* finally { if (!cancelled) setLoading(false) } and the end of the call: its
\* locals cached and systems and the isConnected it closed over go out of scope
Finally(r, rr) ==
    /\ loading' = IF rr.cancelled THEN loading ELSE FALSE
    /\ recs' = [recs EXCEPT ![r] =
                   IF rr.cancelled THEN Forgotten(rr)
                   ELSE [rr EXCEPT !.pc = "done", !.cached = NullCached,
                                   !.systems = <<>>, !.conn = "null"]]

\* a fallback that clears the displayed list
CatchFallbackClears(r, rr) ==
    /\ erpSystems' = <<>>
    /\ Finally(r, rr)

\* the fallback of both catch blocks (lines 176-192, 196-210, 489-504) up to
\* its await, or through finally when it has none
CatchFallback(r, rr) ==
    IF rr.cancelled THEN
        /\ Finally(r, rr)
        /\ UNCHANGED erpSystems
    ELSE IF HasItems(rr.cached) THEN
        /\ erpSystems' = rr.cached.v
        /\ Finally(r, rr)
    ELSE
        /\ recs' = [recs EXCEPT ![r] = [rr EXCEPT !.pc = "fallbackRead"]]
        /\ UNCHANGED <<erpSystems, loading>>

\* catch (error) of the fetch try block: classify, then refresh or fall back
OuterCatch(r, rr, e) ==
    IF variant = "retry" /\ is401Raises(e) THEN
        /\ Finally(r, [rr EXCEPT !.escaped = TRUE])
        /\ UNCHANGED erpSystems
    ELSE IF variant = "retry" /\ is401Error(e) THEN
        /\ recs' = [recs EXCEPT ![r] = [rr EXCEPT !.pc = "refresh",
                                                 !.refreshCalls = @ + 1]]
        /\ UNCHANGED <<erpSystems, loading>>
    ELSE CatchFallback(r, rr)

\* await loadErpSystemsFromCache() of the guarded read resumes (lines 103-121):
\* it returns what the cache holds, or throws and leaves cached null
CacheRead(r) ==
    /\ UNCHANGED offScreen
    /\ recs[r].pc = "readCache"
    /\ \E threw \in BOOLEAN :
         LET c == IF threw THEN NullCached ELSE [isNull |-> FALSE, v |-> cache]
             rr == [recs[r] EXCEPT !.cached = c, !.readOk = ~threw]
         IN  /\ erpSystems' = IF ~rr.cancelled /\ HasItems(c) THEN c.v ELSE erpSystems
             /\ IF IsOffline(rr.conn)
                THEN Finally(r, rr)
                ELSE /\ recs' = [recs EXCEPT ![r] = [rr EXCEPT !.pc = "fetch1",
                                                              !.fetchCalls = @ + 1]]
                     /\ UNCHANGED loading
    /\ UNCHANGED <<variant, isConnected, mounted, cache, nRecs, writer, dirty>>

\* await getErpSystems() returns (lines 124-129, 474-480)
FetchReturn(r) ==
    /\ UNCHANGED offScreen
    /\ recs[r].pc = "fetch1"
    /\ \E p \in Payloads :
         LET systems == normalizeErpSystems(p)
             rr == [recs[r] EXCEPT !.systems = systems, !.first = "ok"]
             saving == [rr EXCEPT !.pc = "save1", !.saveCalls = @ + 1]
         IN  IF variant = "retry" THEN
                 /\ erpSystems' = IF ~rr.cancelled THEN systems ELSE erpSystems
                 /\ recs' = [recs EXCEPT ![r] = saving]
                 /\ UNCHANGED loading
             ELSE IF ~rr.cancelled /\ Len(systems) > 0 THEN
                 /\ erpSystems' = systems
                 /\ recs' = [recs EXCEPT ![r] = saving]
                 /\ UNCHANGED loading
             ELSE
                 /\ Finally(r, rr)
                 /\ UNCHANGED erpSystems
    /\ UNCHANGED <<variant, isConnected, mounted, cache, nRecs, writer, dirty>>

\* await getErpSystems() throws (lines 131-145, 194-211, 481-504)
FetchThrow(r) ==
    /\ UNCHANGED offScreen
    /\ recs[r].pc = "fetch1"
    /\ \E e \in FetchErrors :
         OuterCatch(r, [recs[r] EXCEPT !.first = IF Carries401(e) THEN "auth"
                                                   ELSE "other"], e)
    /\ UNCHANGED <<variant, isConnected, mounted, cache, nRecs, writer, dirty>>

\* await saveErpSystemsToCache(systems) returns (lines 129-130, 163-166, 478-479)
SaveReturn(r) ==
    /\ UNCHANGED offScreen
    /\ recs[r].pc \in {"save1", "save2"}
    /\ cache' = recs[r].systems
    /\ writer' = r
    /\ dirty' = TRUE
    /\ Finally(r, recs[r])
    /\ UNCHANGED <<variant, isConnected, mounted, erpSystems, nRecs>>

\* await saveErpSystemsToCache(systems) throws: the catch block around it
SaveThrow(r) ==
    /\ UNCHANGED offScreen
    /\ recs[r].pc \in {"save1", "save2"}
    /\ \E e \in SaveErrors :
         IF recs[r].pc = "save1" THEN OuterCatch(r, recs[r], e)
         ELSE CatchFallback(r, recs[r])
    /\ UNCHANGED <<variant, isConnected, mounted, cache, nRecs, writer, dirty>>

\* await import(tokenStorage) and await getIdToken({forceRefresh: true}) return
\* (lines 150-156, 167-169)
RefreshReturn(r) ==
    /\ UNCHANGED offScreen
    /\ recs[r].pc = "refresh"
    /\ \E tok \in Tokens :
         LET rr == [recs[r] EXCEPT !.refreshed = IF NonEmptyToken(tok) THEN "token"
                                                  ELSE "empty"]
         IN  IF UsableToken(tok)
             THEN /\ recs' = [recs EXCEPT ![r] = [rr EXCEPT !.pc = "delay"]]
                  /\ UNCHANGED <<erpSystems, loading>>
             ELSE CatchFallback(r, rr)
    /\ UNCHANGED <<variant, isConnected, mounted, cache, nRecs, writer, dirty>>

\* the import or getIdToken throws (lines 170-193)
RefreshThrow(r) ==
    /\ UNCHANGED offScreen
    /\ recs[r].pc = "refresh"
    /\ CatchFallback(r, [recs[r] EXCEPT !.refreshed = "threw"])
    /\ UNCHANGED <<variant, isConnected, mounted, cache, nRecs, writer, dirty>>

\* the 100 ms timer fires: the retry is sent (lines 156-158)
DelayElapsed(r) ==
    /\ UNCHANGED offScreen
    /\ recs[r].pc = "delay"
    /\ recs' = [recs EXCEPT ![r] = [@ EXCEPT !.pc = "fetch2", !.fetchCalls = @ + 1]]
    /\ UNCHANGED <<variant, isConnected, mounted, erpSystems, loading, cache, nRecs,
                   writer, dirty>>

\* the retried getErpSystems() returns (lines 158-163)
RetryReturn(r) ==
    /\ UNCHANGED offScreen
    /\ recs[r].pc = "fetch2"
    /\ \E p \in Payloads :
         LET systems == normalizeErpSystems(p)
         IN  /\ erpSystems' = IF ~recs[r].cancelled THEN systems ELSE erpSystems
             /\ recs' = [recs EXCEPT ![r] = [@ EXCEPT !.systems = systems,
                                                     !.second = "ok",
                                                     !.pc = "save2",
                                                     !.saveCalls = @ + 1]]
    /\ UNCHANGED <<variant, isConnected, mounted, loading, cache, nRecs, writer, dirty>>

\* the retried getErpSystems() throws (lines 170-193)
RetryThrow(r) ==
    /\ UNCHANGED offScreen
    /\ recs[r].pc = "fetch2"
    /\ CatchFallback(r, [recs[r] EXCEPT !.second = "failed"])
    /\ UNCHANGED <<variant, isConnected, mounted, cache, nRecs, writer, dirty>>

\* the second read of the cache, inside the catch block, returns
\* (lines 183-190, 203-208, 495-502): no test of cancelled follows the await
FallbackRead(r) ==
    /\ UNCHANGED offScreen
    /\ recs[r].pc = "fallbackRead"
    /\ erpSystems' = IF Len(cache) > 0 THEN cache ELSE <<>>
    /\ Finally(r, recs[r])
    /\ UNCHANGED <<variant, isConnected, mounted, cache, nRecs, writer, dirty>>

\* the second read throws: nothing encloses it but finally, so the promise of
\* loadErpSystems rejects
FallbackReadThrow(r) ==
    /\ UNCHANGED offScreen
    /\ recs[r].pc = "fallbackRead"
    /\ Finally(r, [recs[r] EXCEPT !.escaped = TRUE])
    /\ UNCHANGED <<variant, isConnected, mounted, erpSystems, cache, nRecs, writer,
                   dirty>>

\* ------------------------------------------------------ the export utility
Exps == 1..MaxExports

\* pending form records, opaque to the export
Form(i) == [id |-> i, data |-> "form"]
Queues == {<<>>, <<Form(1), Form(2), Form(3)>>}

\* directories are paths, a path a sequence of segments; <<>> is an RNFS constant
\* that is undefined on the device
DocumentsDir == <<"data", "Documents">>
Platforms ==
    {[os |-> "ios", download |-> <<>>, external |-> <<>>],
     [os |-> "android", download |-> <<"sdcard", "Download">>, external |-> <<"sdcard">>],
     [os |-> "android", download |-> <<"media", "Download">>, external |-> <<"sdcard">>],
     [os |-> "android", download |-> <<>>, external |-> <<"sdcard">>]}

\* targetDirectories, lines 153-169
TargetDirectories(pl) ==
    IF pl.os = "android"
    THEN (IF pl.download # <<>> THEN <<pl.download>> ELSE <<>>)
         \o (IF pl.external # <<>> THEN <<pl.external \o <<"Download">>>> ELSE <<>>)
         \o <<DocumentsDir>>
    ELSE <<DocumentsDir>>

\* new Date().toISOString() at clock reading t (time of day only)
IsoString(t) == <<"T", "1", "0", ":", "0", ToString(t), ".", "5", "Z">>

\* .replace(/[:.]/g, '-')
ReplaceColonsDots(str) ==
    [k \in 1..Len(str) |-> IF str[k] \in {":", "."} THEN "-" ELSE str[k]]

\* buildFileName, lines 135-138
buildFileName(t) == <<"pending_forms_">> \o ReplaceColonsDots(IsoString(t)) \o <<".json">>

\* JSON.stringify(queue, null, 2) as its tokens (white space left out)
RECURSIVE StringifyItems(_)
StringifyItems(q) ==
    IF q = <<>> THEN <<>>
    ELSE <<"{", "id", ToString(Head(q).id), "data", Head(q).data, "}">>
         \o (IF Len(q) > 1 THEN <<",">> ELSE <<>>) \o StringifyItems(Tail(q))

\* a serialization that stops after the first record
StringifyFirstRecord(q) == <<"[">> \o StringifyItems(SubSeq(q, 1, 1)) \o <<"]">>

Stringify(q) == <<"[">> \o StringifyItems(q) \o <<"]">>

\* a caught failure: its message, and the candidate (position in
\* targetDirectories) whose loop body threw it
Failure(msg, k) == [msg |-> msg, at |-> k]
NoError == Failure("null", 0)

NoResult == [status |-> "none", filePath |-> <<>>, fileName |-> <<>>,
             directory |-> <<>>, error |-> NoError]

\* one call of exportPendingFormsToFile: its position, its locals, its result,
\* and a record of what getQueue gave it ("nonseq", "empty", "items"), of the
\* candidates its loop visited (idx) and of those whose body failed
IdleExp == [pc |-> "idle", queue |-> <<>>, fileName |-> <<>>, payload |-> <<>>,
            idx |-> 0, lastError |-> NoError, result |-> NoResult,
            read |-> "none", failed |-> 0]

\* the call returns res: its locals go out of scope
Returned(x, res) ==
    [x EXCEPT !.pc = "done", !.queue = <<>>, !.fileName = <<>>, !.payload = <<>>,
              !.lastError = NoError, !.result = res]

ScreenQuiet ==
    /\ variant = "retry"
    /\ isConnected = "null"
    /\ mounted = FALSE
    /\ erpSystems = <<>>
    /\ loading = TRUE
    /\ cache = <<>>
    /\ nRecs = 0
    /\ recs = [r \in Recs |-> IdleRec]
    /\ writer = 0
    /\ dirty = FALSE

ExportQuiet ==
    /\ platform = [os |-> "ios", download |-> <<>>, external |-> <<>>]
    /\ queue = <<>>
    /\ queue0 = <<>>
    /\ fsDirs = {}
    /\ fsFiles = {}
    /\ now = 0
    /\ nExps = 0
    /\ exps = [e \in Exps |-> IdleExp]

ExportInit ==
    /\ platform \in Platforms
    /\ queue \in Queues
    /\ queue0 = queue
    /\ fsDirs \in {{}, {DocumentsDir}}
    /\ fsFiles = {}
    /\ now = 0
    /\ nExps = 0
    /\ exps = [e \in Exps |-> IdleExp]

\* the directory the loop of call x is at
DirOf(x) == TargetDirectories(platform)[x.idx]

\* a path that always points into the documents directory
FilePathInDocuments(directory, fileName) == DocumentsDir \o fileName

\* `${directory}/${fileName}`
FilePath(directory, fileName) == directory \o fileName

\* handleExport calls exportPendingFormsToFile() (hook lines 12-19), which runs up
\* to await getQueue(); isExporting is true from there to the finally of handleExport
\* (lines 115-117), and a handleExport rendered since then returns at once: the
\* exports here follow one another (two presses on one handleExport are the
\* subject of HandleExport)
ExportCall ==
    /\ nExps < MaxExports
    /\ \A e \in Exps : exps[e].pc \in {"idle", "done", "rejected"}
    /\ nExps' = nExps + 1
    /\ exps' = [exps EXCEPT ![nExps + 1].pc = "getQueue"]
    /\ UNCHANGED <<offExport, platform, queue, queue0, fsDirs, fsFiles, now>>

\* an emptiness test that looks at the type only
QueueIsEmptyIgnoresLength(isArr, q) == ~isArr

\* !Array.isArray(queue) || queue.length === 0
QueueIsEmpty(isArr, q) == ~isArr \/ Len(q) = 0

\* await getQueue() returns the stored array, or something that is no array
\* (lines 142-176); the clock new Date() reads may have moved on since the last
\* export read it
GetQueueReturn(e) ==
    /\ exps[e].pc = "getQueue"
    /\ \E isArr \in BOOLEAN, later \in BOOLEAN :
         LET got == IF ~isArr THEN "nonseq"
                    ELSE IF Len(queue) = 0 THEN "empty" ELSE "items"
         IN
         IF QueueIsEmpty(isArr, queue)
         THEN /\ exps' = [exps EXCEPT ![e] =
                            Returned([@ EXCEPT !.read = got],
                                     [NoResult EXCEPT !.status = "empty"])]
              /\ UNCHANGED now
         ELSE /\ now' = IF later THEN now + 1 ELSE now
              /\ exps' = [exps EXCEPT ![e] = [@ EXCEPT !.pc = "exists",
                                                      !.read = got,
                                                      !.queue = queue,
                                                      !.fileName = buildFileName(now'),
                                                      !.payload = Stringify(queue),
                                                      !.idx = 1]]
    /\ UNCHANGED <<offExport, platform, queue, queue0, fsDirs, fsFiles, nExps>>

\* await getQueue() throws: nothing catches it, the call rejects
GetQueueThrow(e) ==
    /\ exps[e].pc = "getQueue"
    /\ exps' = [exps EXCEPT ![e].pc = "rejected"]
    /\ UNCHANGED <<offExport, platform, queue, queue0, fsDirs, fsFiles, now, nExps>>

\* await RNFS.exists(directory) returns (lines 176-182)
ExistsReturn(e) ==
    /\ exps[e].pc = "exists"
    /\ exps' = [exps EXCEPT ![e].pc = IF DirOf(exps[e]) \in fsDirs THEN "write"
                                      ELSE "mkdir"]
    /\ UNCHANGED <<offExport, platform, queue, queue0, fsDirs, fsFiles, now, nExps>>

\* await RNFS.mkdir(directory) returns (lines 178-182)
MkdirReturn(e) ==
    /\ exps[e].pc = "mkdir"
    /\ fsDirs' = fsDirs \cup {DirOf(exps[e])}
    /\ exps' = [exps EXCEPT ![e].pc = "write"]
    /\ UNCHANGED <<offExport, platform, queue, queue0, fsFiles, now, nExps>>

\* await RNFS.writeFile(filePath, payload, 'utf8') returns (lines 182-185); the
\* file system may have kept the file or not
WriteReturn(e) ==
    /\ exps[e].pc = "write"
    /\ \E kept \in BOOLEAN :
         LET d == DirOf(exps[e])
             others == {f \in fsFiles : f.dir # d \/ f.name # exps[e].fileName}
         IN  fsFiles' = IF kept
                        THEN others \cup {[dir |-> d, name |-> exps[e].fileName,
                                           content |-> exps[e].payload]}
                        ELSE others
    /\ exps' = [exps EXCEPT ![e].pc = "verify"]
    /\ UNCHANGED <<offExport, platform, queue, queue0, fsDirs, now, nExps>>

\* catch (error) of the loop body, then the next directory or the error result
\* (lines 192-200); the locals of a call go out of scope when it returns
\* a loop that reports the first failure it caught
NextDirectoryKeepsFirstError(e, x, err) ==
    LET first == IF x.lastError = NoError THEN Failure(err, x.idx) ELSE x.lastError
    IN  IF x.idx < Len(TargetDirectories(platform))
        THEN exps' = [exps EXCEPT ![e] = [x EXCEPT !.pc = "exists", !.idx = @ + 1,
                                                  !.failed = @ + 1,
                                                  !.lastError = first]]
        ELSE exps' = [exps EXCEPT ![e] =
                        Returned([x EXCEPT !.failed = @ + 1],
                                 [NoResult EXCEPT !.status = "error",
                                                  !.error = first])]

NextDirectory(e, x, err) ==
    IF x.idx < Len(TargetDirectories(platform))
    THEN exps' = [exps EXCEPT ![e] = [x EXCEPT !.pc = "exists", !.idx = @ + 1,
                                              !.failed = @ + 1,
                                              !.lastError = Failure(err, x.idx)]]
    ELSE exps' = [exps EXCEPT ![e] =
                    Returned([x EXCEPT !.failed = @ + 1],
                             [NoResult EXCEPT !.status = "error",
                                              !.error = Failure(err, x.idx)])]

\* an export that empties the queue once the file is verified
VerifyReturnDrainsQueue(e) ==
    /\ exps[e].pc = "verify"
    /\ LET d == DirOf(exps[e])
           fileExists == \E f \in fsFiles : f.dir = d /\ f.name = exps[e].fileName
       IN  IF fileExists
           THEN /\ exps' = [exps EXCEPT ![e] =
                              Returned(@, [status |-> "success",
                                           filePath |-> FilePath(d, exps[e].fileName),
                                           fileName |-> exps[e].fileName,
                                           directory |-> d,
                                           error |-> NoError])]
                /\ queue' = <<>>
           ELSE /\ NextDirectory(e, exps[e], "File was not created successfully")
                /\ UNCHANGED queue
    /\ UNCHANGED <<offExport, platform, queue0, fsDirs, fsFiles, now, nExps>>

\* await RNFS.exists(filePath) returns (lines 185-191)
VerifyReturn(e) ==
    /\ exps[e].pc = "verify"
    /\ LET d == DirOf(exps[e])
           fileExists == \E f \in fsFiles : f.dir = d /\ f.name = exps[e].fileName
       IN  IF fileExists
           THEN exps' = [exps EXCEPT ![e] =
                           Returned(@, [status |-> "success",
                                        filePath |-> FilePath(d, exps[e].fileName),
                                        fileName |-> exps[e].fileName,
                                        directory |-> d,
                                        error |-> NoError])]
           ELSE NextDirectory(e, exps[e], "File was not created successfully")
    /\ UNCHANGED <<offExport, platform, queue, queue0, fsDirs, fsFiles, now, nExps>>

\* one of the RNFS calls of the loop body throws (lines 192-196)
RnfsThrow(e) ==
    /\ exps[e].pc \in {"exists", "mkdir", "write", "verify"}
    /\ NextDirectory(e, exps[e], exps[e].pc)
    /\ UNCHANGED <<offExport, platform, queue, queue0, fsDirs, fsFiles, now, nExps>>

\* ------------------------------------------------ the pending-forms badge
Cnts == 1..MaxCounts

\* what the queue can hold when the screen gains focus
CountQueues == {<<>>, <<Form(1)>>, <<Form(1), Form(2), Form(3)>>}

\* what getQueue() resolves with: the stored array, or a value that is no array
\* though it has a length (a string of two characters)
QueueResults(q) == {[isArray |-> TRUE, length |-> Len(q)],
                    [isArray |-> FALSE, length |-> 2]}

\* a count taken from whatever has a length
BadgeCountOfAnyLength(res) == res.length

\* the argument of setPendingFormsCount, lines 229-233
BadgeCount(res) == IF res.isArray THEN res.length ELSE 0

\* one call of fetchPendingFormsCount: its position and how its read ended
IdleCnt == [pc |-> "idle", outcome |-> "none"]

\* useState<number>(0), line 40
CountQuiet ==
    /\ pendingFormsCount = 0
    /\ nCnts = 0
    /\ cnts = [c \in Cnts |-> IdleCnt]

\* useFocusEffect (lines 240-244): the screen gains focus, and
\* fetchPendingFormsCount() runs up to await getQueue()
FocusEffect ==
    /\ nCnts < MaxCounts
    /\ nCnts' = nCnts + 1
    /\ cnts' = [cnts EXCEPT ![nCnts + 1].pc = "getQueue"]
    /\ UNCHANGED <<pendingFormsCount, screenVars, exportVars, pureVars, appVars>>

\* await getQueue() returns (lines 228-233)
CountQueueReturn(c) ==
    /\ cnts[c].pc = "getQueue"
    /\ \E res \in QueueResults(queue) :
         /\ pendingFormsCount' = BadgeCount(res)
         /\ cnts' = [cnts EXCEPT ![c] =
                       [pc |-> "done",
                        outcome |-> IF res.isArray THEN "seq" ELSE "nonseq"]]
    /\ UNCHANGED <<nCnts, screenVars, exportVars, pureVars, appVars>>

\* await getQueue() throws: catch (e), lines 234-237
CountQueueThrow(c) ==
    /\ cnts[c].pc = "getQueue"
    /\ pendingFormsCount' = 0
    /\ cnts' = [cnts EXCEPT ![c] = [pc |-> "done", outcome |-> "threw"]]
    /\ UNCHANGED <<nCnts, screenVars, exportVars, pureVars, appVars>>

\* ------------------------------------- the classification of a thrown value
NoFields(t) == Thrown(t, 0, 0, 0, "undefined", <<>>)

\* error.message: absent, a string, or a number
Messages == {<<"undefined", <<>>>>, <<"string", Msg401>>,
             <<"string", MsgUnauthorized>>, <<"string", MsgNetwork>>,
             <<"number", <<>>>>}

\* what a promise can reject with
ThrownValues ==
    {Thrown("object", st, rs, sc, m[1], m[2]) :
        st \in {0, 401, 500}, rs \in {0, 401, 500}, sc \in {0, 401, 500},
        m \in Messages}
    \cup {NoFields("null"), NoFields("undefined"), NoFields("string")}

ClassifyQuiet == thrown = NoFields("undefined") /\ verdict = "none"
ClassifyInit == thrown \in ThrownValues /\ verdict = "none"

\* catch (error) evaluates the is401Error expression (lines 131-145)
Classify ==
    /\ verdict = "none"
    /\ verdict' = IF is401Raises(thrown) THEN "TypeError"
                  ELSE IF is401Error(thrown) THEN "auth" ELSE "other"
    /\ UNCHANGED <<thrown, response, extracted, screenVars, exportVars, countVars, appVars>>

\* --------------------------------------------- the candidate list of a payload
ItA == Obj([id |-> Str("1"), name |-> Str("CSA")])
ItB == Obj([id |-> Str("2"), name |-> Str("FPO")])
ItemLists == {<<>>, <<ItA>>, <<ItB, ItA>>}

\* values a `data` property can hold, and those below it
DeepData == {NoData, RawObj(NoData)} \cup {RawArr(its, NoData) : its \in ItemLists}
DataValues ==
    DeepData \cup {RawObj(d) : d \in DeepData}
             \cup {RawArr(its, d) : its \in ItemLists, d \in DeepData}

\* what getErpSystems() can resolve with
Responses ==
    {RawObj(d) : d \in DataValues}
    \cup {RawArr(its, d) : its \in ItemLists, d \in DataValues}
    \cup {JNull, Undef, Num(0), Str("x")}

\* items a server can send: with their id and name under any alias, without
\* one of them, with the number 0 as id, with an empty name, with a count that
\* is negative or not a number, and values that are no objects
ItZeroId == Obj([ID |-> Num(0), title |-> Str("Zero")])
ItNegative == Obj([id |-> Str("1"), name |-> Str("CSA"), form_count |-> Str("-3")])
ItNoId == Obj([title |-> Str("anonymous")])
ItNameOnly == Obj([name |-> Str("Solo"), formsCount |-> Str("abc")])
ItEmptyName == Obj([id |-> Num(7), name |-> Str(""), systemName |-> Str("S")])
ItAliases == Obj([key |-> Str("k"), systemName |-> Str("S"), forms_count |-> Str("5"),
                  formCount |-> JNull])
Items == {ItA, ItB, ItZeroId, ItNegative, ItNoId, ItNameOnly, ItEmptyName,
          ItAliases, Str("x"), JNull}

\* the sequences of at most n items
RECURSIVE ItemSeqs(_)
ItemSeqs(n) ==
    IF n = 0 THEN {<<>>}
    ELSE ItemSeqs(n - 1)
         \cup {Append(q, it) : q \in {x \in ItemSeqs(n - 1) : Len(x) = n - 1},
                               it \in Items}

\* payloads that are the array of items itself
ItemResponses == {RawArr(its, NoData) : its \in ItemSeqs(MaxItems)}

NotExtracted == [done |-> FALSE, list |-> <<>>, systems |-> <<>>]
NormalizeQuiet == response = Undef /\ extracted = NotExtracted
NormalizeInit ==
    response \in Responses \cup ItemResponses /\ extracted = NotExtracted

\* normalizeErpSystems(response): its candidate list (lines 43-60) and what it
\* returns (lines 89-91)
Normalize ==
    /\ ~extracted.done
    /\ extracted' = [done |-> TRUE,
                     list |-> IF ~Truthy(response) THEN <<>>
                              ELSE CandidateList(response),
                     systems |-> normalizeErpSystems(response)]
    /\ UNCHANGED <<thrown, verdict, response, screenVars, exportVars, countVars, appVars>>

PureQuiet == ClassifyQuiet /\ NormalizeQuiet

\* ------------------------------------------------ the export button's handler
Handles == 1..MaxHandles

\* what exportPendingFormsToFile() resolves with
Statuses == {"empty", "error", "success"}

IdleHandle == [pc |-> "idle", ended |-> "none"]
Ended(how) == [pc |-> "done", ended |-> how]

\* useState(false), and the handleExport of the first render
HandleInit ==
    /\ isExporting = FALSE
    /\ captured = FALSE
    /\ nHandles = 0
    /\ handles = [h \in Handles |-> IdleHandle]

\* a press of the button runs the handleExport of the last render up to its
\* first await (lines 12-19): `if (isExporting) return` reads the value that
\* handleExport closed over
HandleExport ==
    /\ nHandles < MaxHandles
    /\ nHandles' = nHandles + 1
    /\ IF captured
       THEN /\ handles' = [handles EXCEPT ![nHandles + 1] = Ended("guard")]
            /\ UNCHANGED isExporting
       ELSE /\ handles' = [handles EXCEPT ![nHandles + 1].pc = "export"]
            /\ isExporting' = TRUE
    /\ UNCHANGED <<captured, authVars, screenVars, exportVars, countVars, pureVars>>

\* the component renders after a change of isExporting: useCallback, whose
\* dependencies are [isExporting, t], makes a new handleExport (line 118)
Render ==
    /\ captured # isExporting
    /\ captured' = isExporting
    /\ UNCHANGED <<isExporting, nHandles, handles, authVars, screenVars, exportVars,
                   countVars, pureVars>>

\* await exportPendingFormsToFile() resolves (lines 19-37): 'empty' and 'error'
\* alert and return through finally, 'success' goes on to await RNFS.exists
ExportReturn(h) ==
    /\ handles[h].pc = "export"
    /\ \E status \in Statuses :
         IF status = "success"
         THEN /\ handles' = [handles EXCEPT ![h].pc = "exists"]
              /\ UNCHANGED isExporting
         ELSE /\ handles' = [handles EXCEPT ![h] = Ended(status)]
              /\ isExporting' = FALSE
    /\ UNCHANGED <<captured, nHandles, authVars, screenVars, exportVars, countVars,
                   pureVars>>

\* await exportPendingFormsToFile() rejects: catch, then finally (lines 108-117)
ExportThrow(h) ==
    /\ handles[h].pc = "export"
    /\ handles' = [handles EXCEPT ![h] = Ended("threw")]
    /\ isExporting' = FALSE
    /\ UNCHANGED <<captured, nHandles, authVars, screenVars, exportVars, countVars,
                   pureVars>>

\* await RNFS.exists(result.filePath) resolves (lines 39-107): the success
\* alert, or the throw of line 41 and the catch; then finally
FileExistsReturn(h) ==
    /\ handles[h].pc = "exists"
    /\ \E fileExists \in BOOLEAN :
         handles' = [handles EXCEPT
                        ![h] = Ended(IF fileExists THEN "success" ELSE "threw")]
    /\ isExporting' = FALSE
    /\ UNCHANGED <<captured, nHandles, authVars, screenVars, exportVars, countVars,
                   pureVars>>

\* await RNFS.exists(result.filePath) rejects: catch, then finally
FileExistsThrow(h) ==
    /\ handles[h].pc = "exists"
    /\ handles' = [handles EXCEPT ![h] = Ended("threw")]
    /\ isExporting' = FALSE
    /\ UNCHANGED <<captured, nHandles, authVars, screenVars, exportVars, countVars,
                   pureVars>>

\* ------------------------------------------------- the start of the app
MsgSessionExpired == <<"S", "E", "S", "S", "I", "O", "N", "_",
                       "E", "X", "P", "I", "R", "E", "D">>

\* how await getAuthTokens() ends: it throws, or resolves with null or with an
\* object whose idToken is absent, empty or a token
TokenReads ==
    {[threw |-> TRUE, t |-> "null", idToken |-> Undef],
     [threw |-> FALSE, t |-> "null", idToken |-> Undef]}
    \cup {[threw |-> FALSE, t |-> "object", idToken |-> v] :
             v \in {Undef, Str(""), Str("tok")}}

\* how await NetInfo.fetch() ends: it throws, or resolves with a state whose
\* isConnected is true, false or null
NetReads ==
    {[threw |-> TRUE, isConnected |-> "null"]}
    \cup {[threw |-> FALSE, isConnected |-> c] : c \in NetStates}

\* what refreshAuthTokens() rejects with: objects whose message is absent, a
\* string or a number other than 0, and values that are no objects
RefreshMessages ==
    {<<"undefined", <<>>>>, <<"string", <<>>>>, <<"string", MsgNetwork>>,
     <<"string", MsgSessionExpired>>,
     <<"string", Msg401 \o <<":", " ">> \o MsgSessionExpired>>,
     <<"number", <<>>>>}
RefreshErrors ==
    {Thrown("object", 0, 0, 0, m[1], m[2]) : m \in RefreshMessages}
    \cup {NoFields("null"), NoFields("undefined"), NoFields("string")}

\* how await refreshAuthTokens() ends
RefreshEnds ==
    {[threw |-> FALSE, error |-> NoFields("undefined")]}
    \cup {[threw |-> TRUE, error |-> e] : e \in RefreshErrors}

Devices == [tokens : TokenReads, net : NetReads, refresh : RefreshEnds]

\* storedTokens?.idToken is truthy (line 45)
HasIdToken(tokens) == tokens.t = "object" /\ Truthy(tokens.idToken)

\* errorMessage.includes raises a TypeError (line 64): the message is truthy
\* and has no includes method
IncludesRaises(tokenError) ==
    ~Nullish(tokenError) /\ tokenError.msgT = "number"

\* ((tokenError as Error)?.message || '').includes('SESSION_EXPIRED'), lines 63-64
SessionExpired(tokenError) ==
    /\ ~Nullish(tokenError)
    /\ tokenError.msgT = "string"
    /\ Includes(tokenError.msg, MsgSessionExpired)

IdleAuth == [pc |-> "idle", refreshCalls |-> 0]

\* useState(true), useState('Login'), and the effect has called
\* checkAuthState, which waits for getAuthTokens() (lines 27-43, 89)
AuthInit ==
    /\ device \in Devices
    /\ isLoading = TRUE
    /\ initialRoute = "Login"
    /\ auth = [IdleAuth EXCEPT !.pc = "getAuthTokens"]

\* setInitialRoute(route), finally { setIsLoading(false) }, the call ends
AuthEnds(route) ==
    /\ initialRoute' = route
    /\ isLoading' = FALSE
    /\ auth' = [auth EXCEPT !.pc = "done"]

\* await getAuthTokens() ends (lines 43-46, 78-83)
GetAuthTokensEnds ==
    /\ auth.pc = "getAuthTokens"
    /\ IF device.tokens.threw THEN AuthEnds("Login")
       ELSE IF HasIdToken(device.tokens)
       THEN /\ auth' = [auth EXCEPT !.pc = "netInfo"]
            /\ UNCHANGED <<isLoading, initialRoute>>
       ELSE AuthEnds("Login")
    /\ UNCHANGED <<device, handleVars, screenVars, exportVars, countVars, pureVars>>

\* await NetInfo.fetch() ends (lines 47-56, 72-77): online calls
\* refreshAuthTokens(), offline lets the stored tokens in
NetInfoEnds ==
    /\ auth.pc = "netInfo"
    /\ IF device.net.threw THEN AuthEnds("Login")
       ELSE IF device.net.isConnected = "true"
       THEN /\ auth' = [auth EXCEPT !.pc = "refresh",
                                    !.refreshCalls = @ + 1]
            /\ UNCHANGED <<isLoading, initialRoute>>
       ELSE AuthEnds("MainApp")
    /\ UNCHANGED <<device, handleVars, screenVars, exportVars, countVars, pureVars>>

\* await refreshAuthTokens() ends (lines 56-71): a TypeError raised in the
\* inner catch block is caught by the outer one (lines 80-83)
RefreshEndsStartup ==
    /\ auth.pc = "refresh"
    /\ IF ~device.refresh.threw THEN AuthEnds("MainApp")
       ELSE IF IncludesRaises(device.refresh.error) THEN AuthEnds("Login")
       ELSE IF SessionExpired(device.refresh.error) THEN AuthEnds("Login")
       ELSE AuthEnds("MainApp")
    /\ UNCHANGED <<device, handleVars, screenVars, exportVars, countVars, pureVars>>

\* the states of the two while another part of the app is looked at
HandleQuiet == HandleInit
AuthQuiet ==
    /\ device = [tokens |-> [threw |-> FALSE, t |-> "null", idToken |-> Undef],
                 net |-> [threw |-> FALSE, isConnected |-> "null"],
                 refresh |-> [threw |-> FALSE, error |-> NoFields("undefined")]]
    /\ isLoading = TRUE
    /\ initialRoute = "Login"
    /\ auth = IdleAuth
AppQuiet == HandleQuiet /\ AuthQuiet

Init == ScreenInit /\ ExportQuiet /\ CountQuiet /\ PureQuiet /\ AppQuiet

Next ==
    \/ Mount
    \/ NetworkChange
    \/ Unmount
    \/ \E r \in Recs : CacheRead(r)
    \/ \E r \in Recs : FetchReturn(r)
    \/ \E r \in Recs : FetchThrow(r)
    \/ \E r \in Recs : SaveReturn(r)
    \/ \E r \in Recs : SaveThrow(r)
    \/ \E r \in Recs : RefreshReturn(r)
    \/ \E r \in Recs : RefreshThrow(r)
    \/ \E r \in Recs : DelayElapsed(r)
    \/ \E r \in Recs : RetryReturn(r)
    \/ \E r \in Recs : RetryThrow(r)
    \/ \E r \in Recs : FallbackRead(r)
    \/ \E r \in Recs : FallbackReadThrow(r)

\* the ERP list screen
Spec == Init /\ [][Next]_vars

\* call r resumes from the await it is waiting at
Resume(r) ==
    \/ CacheRead(r)
    \/ FetchReturn(r)
    \/ FetchThrow(r)
    \/ SaveReturn(r)
    \/ SaveThrow(r)
    \/ RefreshReturn(r)
    \/ RefreshThrow(r)
    \/ DelayElapsed(r)
    \/ RetryReturn(r)
    \/ RetryThrow(r)
    \/ FallbackRead(r)
    \/ FallbackReadThrow(r)

\* the ERP list screen when every awaited call eventually returns or throws;
\* the network and the navigation owe the screen nothing
SpecLive == Init /\ [][Next]_vars /\ \A r \in Recs : WF_vars(Resume(r))

InitExport == ScreenQuiet /\ ExportInit /\ CountQuiet /\ PureQuiet /\ AppQuiet

NextExport ==
    \/ ExportCall
    \/ \E e \in Exps : GetQueueReturn(e)
    \/ \E e \in Exps : GetQueueThrow(e)
    \/ \E e \in Exps : ExistsReturn(e)
    \/ \E e \in Exps : MkdirReturn(e)
    \/ \E e \in Exps : WriteReturn(e)
    \/ \E e \in Exps : VerifyReturn(e)
    \/ \E e \in Exps : RnfsThrow(e)

\* the pending-forms export
SpecExport == InitExport /\ [][NextExport]_vars

InitCount ==
    /\ ScreenQuiet /\ PureQuiet
    /\ platform = [os |-> "ios", download |-> <<>>, external |-> <<>>]
    /\ queue \in CountQueues
    /\ queue0 = queue
    /\ fsDirs = {} /\ fsFiles = {} /\ now = 0 /\ nExps = 0
    /\ exps = [e \in Exps |-> IdleExp]
    /\ CountQuiet /\ AppQuiet

NextCount ==
    \/ FocusEffect
    \/ \E c \in Cnts : CountQueueReturn(c)
    \/ \E c \in Cnts : CountQueueThrow(c)

\* the pending-forms badge
SpecCount == InitCount /\ [][NextCount]_vars

InitClassify ==
    /\ ScreenQuiet /\ ExportQuiet /\ CountQuiet /\ AppQuiet
    /\ ClassifyInit /\ NormalizeQuiet

\* the classification of one thrown value
SpecClassify == InitClassify /\ [][Classify]_vars

InitNormalize ==
    /\ ScreenQuiet /\ ExportQuiet /\ CountQuiet /\ AppQuiet
    /\ ClassifyQuiet /\ NormalizeInit

\* the candidate list of one payload
SpecNormalize == InitNormalize /\ [][Normalize]_vars

InitHandle ==
    /\ ScreenQuiet /\ ExportQuiet /\ CountQuiet /\ PureQuiet
    /\ HandleInit /\ AuthQuiet

NextHandle ==
    \/ HandleExport
    \/ Render
    \/ \E h \in Handles : ExportReturn(h)
    \/ \E h \in Handles : ExportThrow(h)
    \/ \E h \in Handles : FileExistsReturn(h)
    \/ \E h \in Handles : FileExistsThrow(h)

\* the export button
SpecHandle == InitHandle /\ [][NextHandle]_vars

InitAuth ==
    /\ ScreenQuiet /\ ExportQuiet /\ CountQuiet /\ PureQuiet
    /\ HandleQuiet /\ AuthInit

NextAuth ==
    \/ GetAuthTokensEnds
    \/ NetInfoEnds
    \/ RefreshEndsStartup

\* the start of the app
SpecAuth == InitAuth /\ [][NextAuth]_vars

\* ------------------------------------------------------------- the claims
\* the step is one of loadErpSystems call r (every block of it ends at another await
\* or at the end of the call)
StepOf(r) == recs[r].pc # "idle" /\ recs'[r].pc # recs[r].pc

\* call r ends in this step
Settles(r) == recs[r].pc \notin {"idle", "done"} /\ recs'[r].pc = "done"

\* the remote fetch of the call failed for good: a non-401 error, a 401 whose refresh
\* threw or gave no token, a 401 whose retry failed (the plain screen never retries)
FetchFailed(rec) ==
    \/ rec.first = "other"
    \/ rec.first = "auth" /\ variant = "plain"
    \/ rec.first = "auth" /\ rec.refreshed \in {"empty", "threw"}
    \/ rec.first = "auth" /\ rec.second = "failed"

\* C1: a reconciliation whose remote fetch failed has never called
\* saveErpSystemsToCache and is not waiting for it, before and after each step;
\* and a step of a reconciliation that is not the end of an awaited save leaves
\* the cache as it was, so that no step of such a reconciliation changes it.
C1_FailedFetchNeverSaves ==
    [][\A r \in Recs :
         /\ (FetchFailed(recs[r]) \/ FetchFailed(recs'[r])) =>
               /\ recs[r].saveCalls = 0 /\ recs'[r].saveCalls = 0
               /\ recs'[r].pc \notin {"save1", "save2"}
         /\ (StepOf(r) /\ recs[r].pc \notin {"save1", "save2"}) => cache' = cache]_vars

C1_Witness ==
    \E r \in Recs : /\ recs[r].pc = "done" /\ recs[r].first = "auth"
                    /\ recs[r].second = "failed" /\ cache = <<CSA2>>

\* C2: an un-cancelled reconciliation whose fetch failed, with nobody writing the
\* cache since it began, ends with the displayed list equal to the saved snapshot (empty
\* when there is none), and it ends without a second read only when the first
\* read gave a non-empty snapshot.
C2_FailedFetchShowsSnapshot ==
    [][\A r \in Recs :
         (Settles(r) /\ ~recs'[r].cancelled /\ FetchFailed(recs'[r]) /\ ~dirty)
            => /\ erpSystems' = cache
               /\ (recs[r].pc # "fallbackRead" => HasItems(recs[r].cached))]_vars

\* C3: a reconciliation calls getErpSystems at most twice, and a second time only
\* after the first call failed with a 401 and the refresh returned a token.
C3_AtMostOneRetry ==
    \A r \in Recs :
       /\ recs[r].fetchCalls <= 2
       /\ (recs[r].fetchCalls = 2 =>
              recs[r].first = "auth" /\ recs[r].refreshed = "token")
       /\ (recs[r].refreshed \in {"empty", "threw"} => recs[r].fetchCalls = 1)

C3_Witness ==
    \E r \in Recs : /\ recs[r].pc = "done" /\ recs[r].fetchCalls = 2
                    /\ recs[r].second = "failed"

\* C4: when the first fetch failed with a 401, the refresh returned a token and the
\* retry succeeded, the un-cancelled reconciliation ends with the cache and the
\* displayed list both equal to the normalized payload of the retry.
C4_RetrySuccessCachedAndShown ==
    [][\A r \in Recs :
         (Settles(r) /\ ~recs'[r].cancelled /\ recs[r].first = "auth"
            /\ recs[r].refreshed = "token" /\ recs[r].second = "ok")
            => cache' = recs[r].systems /\ erpSystems' = recs[r].systems]_vars

C6_FetchSuccessCachedAndShown ==
    [][\A r \in Recs :
         (Settles(r) /\ ~recs'[r].cancelled /\ variant = "retry"
            /\ recs[r].conn # "false" /\ recs[r].first = "ok")
            => cache' = recs[r].systems /\ erpSystems' = recs[r].systems]_vars

\* C7: the cache never passes from the result of a newer reconciliation to the
\* result of an older (superseded) one.
C7_NoStaleCacheWrite == [][writer' >= writer]_vars

\* C8: no step of a reconciliation whose cancelled flag is set changes the
\* displayed list or the loading flag.
C8_CancelledNeverSets ==
    [][\A r \in Recs :
         (recs[r].cancelled /\ StepOf(r))
            => erpSystems' = erpSystems /\ loading' = loading]_vars

\* C9: no exception escapes loadErpSystems, whatever the awaited calls do.
C9_NothingEscapes == \A r \in Recs : ~recs[r].escaped

\* C10: whatever exports have run and however they ended, the pending queue holds
\* the records it held before the first export.
C10_ExportLeavesQueue == queue = queue0

C10_Witness ==
    /\ Len(queue) = 3
    /\ \E e \in Exps : exps[e].result.status = "success"
    /\ \E e \in Exps : exps[e].result.status = "error"

\* the candidates of the device, in priority order
Candidates == TargetDirectories(platform)

\* the step is one of export call e
ExpStep(e) == exps'[e] # exps[e]

\* export call e returns in this step
Returns(e) == exps[e].pc \notin {"idle", "done", "rejected"} /\ exps'[e].pc = "done"

\* C11: an export of a non-empty queue visits the candidate directories one by
\* one in priority order, moving on only when the body of the loop failed for the
\* candidate it is at, and touching the file system in that candidate only; it
\* returns success exactly from the verification of the candidate it is at, with
\* directory that candidate and filePath the directory followed by the file
\* name, and a call that has returned takes no further step.
C11_FirstWorkingDirectoryWins ==
    [][\A e \in Exps :
         LET x == exps[e]
             y == exps'[e]
         IN  /\ x.pc \in {"done", "rejected"} => y = x
             /\ ExpStep(e) =>
                  /\ y.idx \in {x.idx, x.idx + 1}
                  /\ (x.idx >= 1 /\ y.idx = x.idx + 1) =>
                        y.failed = x.idx /\ y.lastError.at = x.idx
                  /\ x.idx >= 1 =>
                        /\ fsDirs' \subseteq fsDirs \cup {Candidates[x.idx]}
                        /\ \A f \in (fsFiles' \ fsFiles) \cup (fsFiles \ fsFiles') :
                              f.dir = Candidates[x.idx]
                  /\ (Returns(e) /\ y.result.status = "success") =>
                        /\ x.pc = "verify" /\ x.read = "items"
                        /\ y.idx = x.idx /\ y.failed = x.idx - 1
                        /\ y.result.directory = Candidates[x.idx]
                        /\ y.result.fileName = x.fileName
                        /\ y.result.filePath = y.result.directory \o y.result.fileName
                        /\ \E f \in fsFiles' : /\ f.dir = y.result.directory
                                               /\ f.name = y.result.fileName]_vars

\* success on the third candidate after the first two failed
C11_Witness ==
    \E e \in Exps :
       /\ exps[e].pc = "done" /\ exps[e].result.status = "success"
       /\ exps[e].idx = 3 /\ exps[e].failed = 2
       /\ exps[e].result.directory = DocumentsDir
       /\ Candidates[1] # Candidates[2]

\* C12: a returned export has the error result exactly when its queue read gave
\* a non-empty array and the loop body failed for every candidate; the error it
\* carries is then the failure caught for the last candidate.
C12_ErrorIffAllFailed ==
    \A e \in Exps :
       exps[e].pc = "done" =>
          /\ exps[e].result.status = "error"
                <=> (exps[e].read = "items" /\ exps[e].failed = Len(Candidates))
          /\ exps[e].result.status = "error" =>
                /\ exps[e].idx = Len(Candidates)
                /\ exps[e].result.error # NoError
                /\ exps[e].result.error.at = Len(Candidates)
          /\ exps[e].result.status # "error" => exps[e].result.error = NoError

\* three candidates failed, each in its own way, the last by a missing file
C12_Witness ==
    \E e \in Exps :
       /\ exps[e].pc = "done" /\ exps[e].result.status = "error"
       /\ exps[e].failed = 3
       /\ exps[e].result.error = Failure("File was not created successfully", 3)

\* C13: when getQueue gives an empty array or a value that is no array, the
\* call returns the empty result in that very step, without ever entering the
\* loop over the candidates and with every directory and file as it was; having
\* returned, it takes no further step.
C13_EmptyQueueTouchesNothing ==
    [][\A e \in Exps :
         LET x == exps[e]
             y == exps'[e]
         IN  /\ (y.read \in {"empty", "nonseq"} /\ ExpStep(e)) =>
                  /\ x.pc = "getQueue" /\ y.pc = "done"
                  /\ y.result = [NoResult EXCEPT !.status = "empty"]
                  /\ y.idx = 0
                  /\ fsDirs' = fsDirs /\ fsFiles' = fsFiles
             /\ (x.pc = "done" /\ x.result.status = "empty") =>
                  /\ y = x
                  /\ x.read \in {"empty", "nonseq"} /\ x.idx = 0]_vars

\* an empty array and a non-array were both read, and no file was written
C13_Witness ==
    /\ \E e \in Exps : exps[e].pc = "done" /\ exps[e].read = "empty"
    /\ \E e \in Exps : exps[e].pc = "done" /\ exps[e].read = "nonseq"
    /\ fsFiles = {} /\ fsDirs = {}

\* JSON.parse of the tokens Stringify writes
ParseNumber(tok) == CHOOSE i \in 0..9 : ToString(i) = tok
RECURSIVE ParseItems(_)
ParseItems(toks) ==
    IF toks = <<>> \/ Head(toks) = "]" THEN <<>>
    ELSE IF Head(toks) = "," THEN ParseItems(Tail(toks))
    ELSE <<[id |-> ParseNumber(toks[3]), data |-> toks[5]]>>
         \o ParseItems(SubSeq(toks, 7, Len(toks)))
Parse(toks) == ParseItems(Tail(toks))

\* pending_forms_<timestamp>.json, the timestamp free of ':' and '.'
IsExportName(name) ==
    /\ Len(name) >= 3
    /\ name[1] = "pending_forms_" /\ name[Len(name)] = ".json"
    /\ \A k \in 2..(Len(name) - 1) : name[k] \notin {":", ".", ".json"}

\* C14: when an export returns success, the file at the returned filePath holds
\* the serialization of the queue that call read (parsing it gives the same
\* records in the same order), and the returned fileName is
\* pending_forms_<timestamp>.json.
C14_FileHoldsQueueSnapshot ==
    [][\A e \in Exps :
         (Returns(e) /\ exps'[e].result.status = "success") =>
            /\ IsExportName(exps'[e].result.fileName)
            /\ \E f \in fsFiles' :
                  /\ f.dir \o f.name = exps'[e].result.filePath
                  /\ Parse(f.content) = exps[e].queue
                  /\ Len(exps[e].queue) > 0]_vars

\* two exports of the three records wrote two files
C14_Witness ==
    /\ \A e \in 1..2 : exps[e].pc = "done" /\ exps[e].result.status = "success"
    /\ exps[1].result.filePath # exps[2].result.filePath
    /\ \A f \in fsFiles : Parse(f.content) = <<Form(1), Form(2), Form(3)>>
    /\ Cardinality(fsFiles) = 2

\* C15: the step that completes a call of fetchPendingFormsCount leaves
\* pendingFormsCount at the length of the queue when getQueue gave an array, and
\* at 0 when it gave something else or threw; the count is never negative, and
\* the call ends normally whatever the read did.
C15_BadgeCountAfterRead ==
    [][\A c \in Cnts :
         (cnts[c].pc = "getQueue" /\ cnts'[c] # cnts[c]) =>
            /\ cnts'[c].pc = "done"
            /\ cnts'[c].outcome \in {"seq", "nonseq", "threw"}
            /\ pendingFormsCount' = IF cnts'[c].outcome = "seq" THEN Len(queue) ELSE 0
            /\ pendingFormsCount' >= 0]_vars

\* a failed read, a non-array and the array of three records have been counted,
\* the array last
C15_Witness ==
    /\ Len(queue) = 3 /\ pendingFormsCount = 3
    /\ \A c \in Cnts : cnts[c].pc = "done"
    /\ {cnts[c].outcome : c \in Cnts} = {"seq", "nonseq", "threw"}

\* the save awaited by call r fails in this step: the call moves on and the
\* cache has not taken its list
SaveFails(r) == recs[r].pc \in {"save1", "save2"} /\ StepOf(r) /\ writer' # r

\* C16: when the fetch succeeded and the save that follows fails, the
\* un-cancelled reconciliation ends there with the displayed list still the
\* fresh normalized list, and it calls neither the token refresh nor
\* getErpSystems again.
C16_SaveFailureKeepsFreshList ==
    [][\A r \in Recs :
         (SaveFails(r) /\ ~recs[r].cancelled) =>
            /\ Settles(r)
            /\ erpSystems' = recs[r].systems
            /\ recs'[r].refreshCalls = recs[r].refreshCalls
            /\ recs'[r].fetchCalls = recs[r].fetchCalls]_vars

\* C17: a reconciliation calls the forced token refresh at most once, and only
\* on the retrying screen after its first fetch failed with a 401; one whose first
\* fetch failed otherwise has called no refresh and no second fetch, and is at the
\* cache fallback or past it.
C17_RefreshOnlyAfter401 ==
    \A r \in Recs :
       /\ recs[r].refreshCalls <= 1
       /\ recs[r].refreshCalls = 1 =>
             variant = "retry" /\ recs[r].first = "auth"
       /\ recs[r].first = "other" =>
             /\ recs[r].refreshCalls = 0 /\ recs[r].fetchCalls = 1
             /\ recs[r].second = "none" /\ recs[r].refreshed = "none"
             /\ recs[r].pc \in {"fallbackRead", "done"}

\* one reconciliation is refreshing after a 401 while the next has fallen back
\* after another failure
C17_Witness ==
    /\ nRecs = 2
    /\ recs[1].first = "auth" /\ recs[1].refreshCalls = 1 /\ recs[1].pc = "refresh"
    /\ recs[2].first = "other" /\ recs[2].pc = "fallbackRead"
    /\ recs[2].refreshCalls = 0

\* C18: the step in which an un-cancelled reconciliation gets a non-empty
\* snapshot from its first cache read and calls getErpSystems for the first
\* time leaves the displayed list equal to that snapshot.
C18_SnapshotShownBeforeFetch ==
    [][\A r \in Recs :
         (recs[r].pc = "readCache" /\ StepOf(r) /\ ~recs[r].cancelled
            /\ recs'[r].readOk /\ Len(cache) > 0) =>
               /\ erpSystems' = cache
               /\ recs[r].fetchCalls = 0
               /\ recs'[r].fetchCalls = 1 => recs'[r].cached.v = erpSystems']_vars

\* the fetch is in flight with the snapshot on display, a snapshot that the
\* reconciliation before saved
C18_Witness ==
    /\ nRecs = 2 /\ recs[2].pc = "fetch1" /\ ~recs[2].cancelled
    /\ recs[2].readOk /\ recs[2].fetchCalls = 1
    /\ writer = 1 /\ Len(cache) > 0
    /\ recs[2].cached.v = cache /\ erpSystems = cache

\* the thrown value signals a 401 in one of the ways the specification lists: a
\* status field (status or statusCode), the nested response status, or a message
\* text holding "401" or "Unauthorized"
Signals401(e) ==
    \/ e.status = 401 \/ e.statusCode = 401
    \/ e.respStatus = 401
    \/ e.msgT = "string" /\ Includes(e.msg, <<"4", "0", "1">>)
    \/ e.msgT = "string" /\ Includes(e.msg, MsgUnauthorized)

\* C19: every thrown value is classified, as an authorization failure when it
\* signals a 401 by a status field, the nested response status or its message
\* text, and as any other error when it does not.
C19_AuthIffSignals401 ==
    verdict # "none" =>
       verdict = IF Signals401(thrown) THEN "auth" ELSE "other"

\* the list the specification's order picks: data, then the payload itself, then
\* data.data
ListInSpecOrder(p) ==
    IF ~Truthy(p) THEN <<>>
    ELSE IF IsArray(DataOf(p)) THEN DataOf(p).items
    ELSE IF IsArray(p) THEN p.items
    ELSE IF IsArray(DataOf(DataOf(p))) THEN DataOf(DataOf(p)).items
    ELSE <<>>

ListDataFirst(p) ==
    IF ~Truthy(p) THEN <<>>
    ELSE IF IsArray(DataOf(p)) THEN DataOf(p).items
    ELSE IF IsArray(DataOf(DataOf(p))) THEN DataOf(DataOf(p)).items
    ELSE IF IsArray(p) THEN p.items
    ELSE <<>>

ResolvedId(item) ==
    IF item.t # "object" THEN ""
    ELSE ToStr(Coalesce(item, <<"id", "ID", "key", "name", "systemId">>, Str("")))
ResolvedName(item) ==
    IF item.t # "object" THEN ""
    ELSE ToStr(Coalesce(item, <<"name", "title", "systemName">>, Str("")))
NonEmptyAsStrings(item) == ResolvedId(item) # "" /\ ResolvedName(item) # ""

\* C21: normalization drops an item exactly when its resolved id or its
\* resolved name is the empty string after coercion to a string: every record
\* it emits has a non-empty id and a non-empty name, and it emits one record
\* for every item whose id and name are both non-empty as strings.
C21_DropsExactlyEmptyStrings ==
    extracted.done =>
        /\ \A k \in 1..Len(extracted.systems) :
              extracted.systems[k].id # "" /\ extracted.systems[k].name # ""
        /\ Len(extracted.systems) =
              Cardinality({i \in 1..Len(extracted.list) :
                              NonEmptyAsStrings(extracted.list[i])})

\* C22: every record normalization produces has a formCount that is an
\* integer greater than or equal to 0.
C22_FormCountNotNegative ==
    extracted.done =>
        \A k \in 1..Len(extracted.systems) :
            extracted.systems[k].formCount \in Nat

\* the strictly increasing maps of the output's positions into the list's
Embeddings ==
    {f \in [1..Len(extracted.systems) -> 1..Len(extracted.list)] :
        \A a, b \in 1..Len(extracted.systems) : a < b => f[a] < f[b]}

\* C23: the normalized result is an order-preserving subsequence image of the
\* candidate list: its records are the records of some items of the list in
\* the list's order, it is never longer than the list, and an id that several
\* accepted items carry appears on as many records.
C23_OrderPreservingImage ==
    extracted.done =>
        /\ Len(extracted.systems) <= Len(extracted.list)
        /\ \E f \in Embeddings :
              /\ \A k \in 1..Len(extracted.systems) :
                    /\ extracted.systems[k].id = ResolvedId(extracted.list[f[k]])
                    /\ extracted.systems[k].name
                          = ResolvedName(extracted.list[f[k]])
              /\ \A i \in 1..Len(extracted.list) :
                    (\E k \in 1..Len(extracted.systems) : f[k] = i)
                        <=> (extracted.list[i].t = "object"
                             /\ Truthy(Coalesce(extracted.list[i],
                                    <<"id", "ID", "key", "name", "systemId">>,
                                    Str("")))
                             /\ Truthy(Coalesce(extracted.list[i],
                                    <<"name", "title", "systemName">>, Str(""))))
\* two items with the same id were both kept, in their order
C23_Witness ==
    /\ extracted.done
    /\ Len(extracted.list) = 2
    /\ Len(extracted.systems) = 2
    /\ extracted.systems[1].id = extracted.systems[2].id
    /\ extracted.systems[1].formCount # extracted.systems[2].formCount

\* ---------------------------------------------------------------------
\* call r is running: it has started and has not ended
Running(r) == recs[r].pc \notin {"idle", "done"}

\* C24: a reconciliation that is never cancelled ends with loading set to
\* false, whatever path it takes, provided each awaited call returns or
\* throws; and whenever the most recent reconciliation has ended without being
\* cancelled the loading flag is false.
C24_LoadingEventuallyFalse ==
    /\ \A r \in Recs :
          Running(r) ~> (recs[r].cancelled \/ (recs[r].pc = "done" /\ ~loading))
    /\ [](\A r \in Recs :
             (r = nRecs /\ recs[r].pc = "done" /\ ~recs[r].cancelled) => ~loading)
\* the last call ended through an error that left its catch block, never
\* cancelled, and the flag is down
C24_Witness ==
    /\ nRecs = MaxRecs
    /\ recs[nRecs].pc = "done"
    /\ ~recs[nRecs].cancelled
    /\ recs[nRecs].escaped
    /\ ~loading

\* ---------------------------------------------------------------------
\* the invocations of handleExport whose exportPendingFormsToFile() call has
\* not settled
InFlight == {h \in Handles : handles[h].pc = "export"}

\* C25: at most one exportPendingFormsToFile call started through
\* handleExport is in flight at any time, also when two invocations happen
\* before the component has rendered again.
C25_OneExportInFlight == Cardinality(InFlight) <= 1

\* ---------------------------------------------------------------------
\* this step of call r neither begins nor ends a save: the call is in one of
\* the cases in which it writes nothing
WritesNothing(r) ==
    recs[r].pc \notin {"save1", "save2"} /\ recs'[r].pc \notin {"save1", "save2"}

\* C26: on the screen that does not retry, a reconciliation calls
\* getErpSystems at most once and never the token refresh; it begins a save at
\* most once, and only when its fetch returned, it was not cancelled then and
\* the normalized result is not empty; only the end of that save changes the
\* cache; and in every other step the cache is kept and the displayed list is
\* left as it was or set to the snapshot the call read first or, after its
\* second read, to what the cache holds.
C26_PlainFetchesOnceWritesOnSuccess ==
    [][\A r \in Recs :
         (variant = "plain" /\ StepOf(r)) =>
            /\ recs'[r].fetchCalls <= 1
            /\ recs'[r].refreshCalls = 0
            /\ recs'[r].saveCalls <= 1
            /\ recs'[r].pc \notin {"refresh", "delay", "fetch2", "save2"}
            /\ recs'[r].pc = "save1" =>
                  /\ recs[r].pc = "fetch1"
                  /\ recs[r].saveCalls = 0
                  /\ ~recs[r].cancelled
                  /\ recs'[r].first = "ok"
                  /\ Len(recs'[r].systems) > 0
            /\ cache' # cache => recs[r].pc = "save1" /\ cache' = recs[r].systems
            /\ (WritesNothing(r) /\ recs[r].pc # "readCache") =>
                  /\ cache' = cache
                  /\ \/ erpSystems' = erpSystems
                     \/ HasItems(recs[r].cached) /\ erpSystems' = recs[r].cached.v
                     \/ recs[r].pc = "fallbackRead" /\ erpSystems' = cache]_vars
\* the last call on that screen fetched once, failed, wrote nothing, and the
\* snapshot it had displayed is still displayed and still cached
C26_Witness ==
    /\ variant = "plain"
    /\ nRecs = MaxRecs
    /\ recs[nRecs].pc = "done" /\ ~recs[nRecs].cancelled
    /\ recs[nRecs].first = "other"
    /\ recs[nRecs].fetchCalls = 1 /\ recs[nRecs].saveCalls = 0
    /\ recs[nRecs].readOk
    /\ erpSystems = <<CSA2>> /\ cache = <<CSA2>>

\* ---------------------------------------------------------------------
\* the refresh failed with an error whose message does not contain
\* SESSION_EXPIRED
FailedUnexpired ==
    /\ device.refresh.threw
    /\ ~(/\ device.refresh.error.msgT = "string"
         /\ Includes(device.refresh.error.msg, MsgSessionExpired))

\* C27: after checkAuthState completes, isLoading is false and initialRoute
\* is 'MainApp' if and only if a stored idToken exists and either the device
\* is not online, or the startup refresh succeeded, or it failed with an error
\* whose message does not contain SESSION_EXPIRED; otherwise it is 'Login';
\* and refreshAuthTokens is never called when the device is not online.
C27_RouteAfterStartup ==
    /\ auth.refreshCalls > 0 =>
          ~device.net.threw /\ device.net.isConnected = "true"
    /\ auth.pc = "done" =>
          /\ isLoading = FALSE
          /\ initialRoute \in {"MainApp", "Login"}
          /\ initialRoute = "MainApp" <=>
                /\ ~device.tokens.threw
                /\ HasIdToken(device.tokens)
                /\ \/ ~device.net.threw /\ device.net.isConnected # "true"
                   \/ /\ ~device.net.threw /\ device.net.isConnected = "true"
                      /\ ~device.refresh.threw \/ FailedUnexpired

=============================================================================
